---------------------------- MODULE Spec2Model ----------------------------
(***************************************************************************)
(* StoreBuddy API (src/Main.py): the in-memory product catalog, customer   *)
(* directory and bill ledger, and the request handlers that read and       *)
(* change them.  Each handler is one action; the response of the latest    *)
(* request is kept in the variable last.  SpecConcurrent runs add_product  *)
(* and create_bill in two worker threads, one action per access to the     *)
(* shared state.                                                           *)
(*                                                                         *)
(* Money is counted in hundredths of a currency unit.  A Product's barcode *)
(* and category are stored and returned untouched exactly like its name,   *)
(* and are represented by the name.  A bill's timestamp is not modelled,   *)
(* nor is the daily-sales report that filters on it.                       *)
(***************************************************************************)
EXTENDS Integers, Sequences, FiniteSets

VARIABLES
    products_db,    \* line 43: the catalog, a list of Product
    customers_db,   \* line 44: a list of Customer
    bills_db,       \* line 45: the ledger, a list of bill records
    bill_counter,   \* line 46
    last,           \* the response to the latest request
    added,          \* history: the Product bodies of the add_product requests
                    \* made so far (kept by SpecAdds only)
    threads,        \* per worker thread, the request it is serving, the
                    \* line it has reached and its local variables (used by
                    \* SpecConcurrent only)
    overlapped      \* history: a create_bill call has started while another
                    \* was in progress (kept by SpecConcurrent only)

vars == <<products_db, customers_db, bills_db, bill_counter, last, added,
          threads, overlapped>>

(*************************** bounds and inputs *****************************)

\* create_bill is requested at most MaxBills times, each time with at most
\* MaxItems items.
MaxBills == 2
MaxItems == 2

ProductIds == {1, 2}
CustomerIds == {1}

\* The (name, price) pairs a Product body may carry.
Payloads == {[name |-> "pen", price |-> 100], [name |-> "ink", price |-> 250]}

\* Product (lines 15-21) bodies with a payload from ps and a quantity from qs.
ProductBodies(ps, qs) ==
    {[id |-> i, name |-> p.name, price |-> p.price, quantity |-> q] :
        i \in ProductIds, p \in ps, q \in qs}

\* Customer (lines 23-27) bodies.
CustomerBodies == [id : CustomerIds, name : {"ann"}, loyalty_points : {0}]

\* BillItem (lines 29-31) lists of at most MaxItems items, quantities from qs.
BillItems(qs) == [product_id : ProductIds, quantity : qs]

ItemLists(qs) == UNION {[1..n -> BillItems(qs)] : n \in 0..MaxItems}

\* customer_id: Optional[int] = None (line 118): <<>> is None, <<c>> is c.
CustomerRefs == {<<>>} \cup {<<c>> : c \in CustomerIds}

(******************************* responses *********************************)

\* What a handler answered: 200 and the returned body, or the HTTPException's
\* status code and detail (with the values formatted into the detail).
Response(op, status_code, detail, body) ==
    [op |-> op, status_code |-> status_code, detail |-> detail, body |-> body]

(***************************** worker threads ******************************)

\* FastAPI runs a handler declared with def in a worker thread of a pool, so
\* two requests can be served at the same time, their bytecodes interleaved.
Threads == {1, 2}

\* A thread that serves no request.  Serving one, pc names the line it is
\* about to run and the other fields are the handler's arguments and locals:
\* items, customer_id, product (the arguments), k (the index of item in
\* items), i (the index in products_db of the object product refers to),
\* read (a value loaded and not yet stored back), subtotal, processed
\* (bill_items_processed), bill_record; seen is history, what the thread's
\* last check looked at.
Idle ==
    [pc |-> "idle", items |-> <<>>, customer_id |-> <<>>, product |-> <<>>,
     k |-> 0, i |-> 0, read |-> 0, seen |-> 0, subtotal |-> 0,
     processed |-> <<>>, bill_record |-> <<>>]

(***************************** state at start ******************************)

\* Lines 43-46.
Init ==
    /\ products_db = <<>>
    /\ customers_db = <<>>
    /\ bills_db = <<>>
    /\ bill_counter = 0
    /\ last = Response("start", 200, "", <<>>)
    /\ added = <<>>
    /\ threads = [t \in Threads |-> Idle]
    /\ overlapped = FALSE

(**************************** product handlers *****************************)

\* The index of the first record of db with this id, 0 when there is none:
\* the scans of lines 70-71, 79-80, 86-87, 95-96, 109-110 and 129-132.
FindById(db, id) ==
    IF \E i \in 1..Len(db) : db[i].id = id
    THEN CHOOSE i \in 1..Len(db) :
            /\ db[i].id = id
            /\ \A j \in 1..(i - 1) : db[j].id # id
    ELSE 0

\* del db[i]
RemoveAt(db, i) == SubSeq(db, 1, i - 1) \o SubSeq(db, i + 1, Len(db))

\* GET /products
get_all_products ==
    /\ last' = Response("get_all_products", 200, "", products_db)
    /\ UNCHANGED <<products_db, customers_db, bills_db, bill_counter>>

\* add_product without the scan of lines 70-72.
add_product_unchecked(product) ==
    /\ products_db' = Append(products_db, product)
    /\ last' = Response("add_product", 200, "", product)
    /\ UNCHANGED <<customers_db, bills_db, bill_counter>>

\* add_product with the comparison of line 71 inverted.
add_product_inverted_check(product) ==
    /\ IF \E i \in 1..Len(products_db) : products_db[i].id # product.id
       THEN /\ products_db' = products_db
            /\ last' = Response("add_product", 400,
                                "Product ID already exists", <<>>)
       ELSE /\ products_db' = Append(products_db, product)
            /\ last' = Response("add_product", 200, "", product)
    /\ UNCHANGED <<customers_db, bills_db, bill_counter>>

\* POST /products
add_product(product) ==
    /\ IF FindById(products_db, product.id) # 0
       THEN /\ products_db' = products_db
            /\ last' = Response("add_product", 400,
                                "Product ID already exists", <<>>)
       ELSE /\ products_db' = Append(products_db, product)
            /\ last' = Response("add_product", 200, "", product)
    /\ UNCHANGED <<customers_db, bills_db, bill_counter>>

\* What GET /products/{product_id} answers on catalog db.
get_product_response(db, product_id) ==
    LET i == FindById(db, product_id) IN
    IF i # 0
    THEN Response("get_product", 200, "", db[i])
    ELSE Response("get_product", 404, "Product not found", <<>>)

\* GET /products/{product_id}
get_product(product_id) ==
    /\ last' = get_product_response(products_db, product_id)
    /\ UNCHANGED <<products_db, customers_db, bills_db, bill_counter>>

\* update_product without line 88: the body's own id is stored.
update_product_keeps_body_id(product_id, updated_product) ==
    LET i == FindById(products_db, product_id) IN
    /\ IF i # 0
       THEN /\ products_db' = [products_db EXCEPT ![i] = updated_product]
            /\ last' = Response("update_product", 200, "", updated_product)
       ELSE /\ products_db' = products_db
            /\ last' = Response("update_product", 404,
                                "Product not found", <<>>)
    /\ UNCHANGED <<customers_db, bills_db, bill_counter>>

\* update_product storing every supplied field but the quantity.
update_product_keeps_quantity(product_id, updated_product) ==
    LET i == FindById(products_db, product_id)
        stored == [updated_product EXCEPT !.id = product_id,
                                          !.quantity = products_db[i].quantity]
    IN
    /\ IF i # 0
       THEN /\ products_db' = [products_db EXCEPT ![i] = stored]
            /\ last' = Response("update_product", 200, "", stored)
       ELSE /\ products_db' = products_db
            /\ last' = Response("update_product", 404,
                                "Product not found", <<>>)
    /\ UNCHANGED <<customers_db, bills_db, bill_counter>>

\* PUT /products/{product_id}
update_product(product_id, updated_product) ==
    LET i == FindById(products_db, product_id)
        stored == [updated_product EXCEPT !.id = product_id]
    IN
    /\ IF i # 0
       THEN /\ products_db' = [products_db EXCEPT ![i] = stored]
            /\ last' = Response("update_product", 200, "", stored)
       ELSE /\ products_db' = products_db
            /\ last' = Response("update_product", 404,
                                "Product not found", <<>>)
    /\ UNCHANGED <<customers_db, bills_db, bill_counter>>

\* delete_product that also deletes the bills that sold the product.
delete_product_cascade(product_id) ==
    LET i == FindById(products_db, product_id)
        Keeps(bill) ==
            \A k \in 1..Len(bill.items) : bill.items[k].product_id # product_id
    IN
    /\ IF i # 0
       THEN /\ products_db' = RemoveAt(products_db, i)
            /\ bills_db' = SelectSeq(bills_db, Keeps)
            /\ last' = Response("delete_product", 200, "",
                                "Product deleted successfully")
       ELSE /\ products_db' = products_db
            /\ bills_db' = bills_db
            /\ last' = Response("delete_product", 404,
                                "Product not found", <<>>)
    /\ UNCHANGED <<customers_db, bill_counter>>

\* delete_product removing the last record of the catalog, whichever it is.
delete_product_last(product_id) ==
    LET i == FindById(products_db, product_id) IN
    /\ IF i # 0
       THEN /\ products_db' = RemoveAt(products_db, Len(products_db))
            /\ last' = Response("delete_product", 200, "",
                                "Product deleted successfully")
       ELSE /\ products_db' = products_db
            /\ last' = Response("delete_product", 404,
                                "Product not found", <<>>)
    /\ UNCHANGED <<customers_db, bills_db, bill_counter>>

\* DELETE /products/{product_id}
delete_product(product_id) ==
    LET i == FindById(products_db, product_id) IN
    /\ IF i # 0
       THEN /\ products_db' = RemoveAt(products_db, i)
            /\ last' = Response("delete_product", 200, "",
                                "Product deleted successfully")
       ELSE /\ products_db' = products_db
            /\ last' = Response("delete_product", 404,
                                "Product not found", <<>>)
    /\ UNCHANGED <<customers_db, bills_db, bill_counter>>

(**************************** customer handlers ****************************)

\* GET /customers
get_all_customers ==
    /\ last' = Response("get_all_customers", 200, "", customers_db)
    /\ UNCHANGED <<products_db, customers_db, bills_db, bill_counter>>

\* POST /customers
add_customer(customer) ==
    /\ IF FindById(customers_db, customer.id) # 0
       THEN /\ customers_db' = customers_db
            /\ last' = Response("add_customer", 400,
                                "Customer ID already exists", <<>>)
       ELSE /\ customers_db' = Append(customers_db, customer)
            /\ last' = Response("add_customer", 200, "", customer)
    /\ UNCHANGED <<products_db, bills_db, bill_counter>>

(********************************* billing *********************************)

\* The stock check with <= for <.
InsufficientStockOrEqual(product, item) == product.quantity <= item.quantity

\* The stock check with its operands exchanged.
InsufficientStockReversed(product, item) == item.quantity < product.quantity

\* Line 137: the stock check.
InsufficientStock(product, item) == product.quantity < item.quantity

\* Line 144.
ItemTotal(product, item) == product.price * item.quantity

\* The decrement taking one unit whatever the item's quantity.
DecrementStockByOne(db, i, item) ==
    [db EXCEPT ![i].quantity = @ - 1]

\* Line 148: product.quantity -= item.quantity, on the record at index i.
DecrementStock(db, i, item) ==
    [db EXCEPT ![i].quantity = @ - item.quantity]

\* Lines 151-157.
ProcessedItem(product, item) ==
    [product_id |-> product.id, product_name |-> product.name,
     quantity |-> item.quantity, unit_price |-> product.price,
     item_total |-> ItemTotal(product, item)]

\* The loop skipping an item whose product is not found, for raising.
RECURSIVE ProcessItemsSkipUnknown(_, _, _, _, _)
ProcessItemsSkipUnknown(db, items, k, subtotal, processed) ==
    IF k > Len(items)
    THEN [status_code |-> 200, detail |-> "", db |-> db,
          subtotal |-> subtotal, processed |-> processed, info |-> <<>>]
    ELSE LET item == items[k]
             i == FindById(db, item.product_id)
         IN
         IF i = 0
         THEN ProcessItemsSkipUnknown(db, items, k + 1, subtotal, processed)
         ELSE IF db[i].quantity < item.quantity
         THEN [status_code |-> 400, detail |-> "Insufficient stock",
               db |-> db, subtotal |-> subtotal, processed |-> processed,
               info |-> [product_name |-> db[i].name,
                         available |-> db[i].quantity,
                         requested |-> item.quantity]]
         ELSE ProcessItemsSkipUnknown(
                  [db EXCEPT ![i].quantity = @ - item.quantity], items, k + 1,
                  subtotal + db[i].price * item.quantity,
                  Append(processed, ProcessedItem(db[i], item)))

\* The loop of lines 126-157 from item k on, with the catalog, subtotal and
\* bill_items_processed as they stand.  It ends with the HTTPException raised
\* (status_code 404 or 400; info holds the values formatted into its detail)
\* or with every item processed.
RECURSIVE ProcessItems(_, _, _, _, _)
ProcessItems(db, items, k, subtotal, processed) ==
    IF k > Len(items)
    THEN [status_code |-> 200, detail |-> "", db |-> db,
          subtotal |-> subtotal, processed |-> processed, info |-> <<>>]
    ELSE LET item == items[k]
             i == FindById(db, item.product_id)
         IN
         IF i = 0
         THEN [status_code |-> 404, detail |-> "Product ID not found",
               db |-> db, subtotal |-> subtotal, processed |-> processed,
               info |-> [product_id |-> item.product_id]]
         ELSE IF InsufficientStock(db[i], item)
         THEN [status_code |-> 400, detail |-> "Insufficient stock",
               db |-> db, subtotal |-> subtotal, processed |-> processed,
               info |-> [product_name |-> db[i].name,
                         available |-> db[i].quantity,
                         requested |-> item.quantity]]
         ELSE ProcessItems(DecrementStock(db, i, item), items, k + 1,
                           subtotal + ItemTotal(db[i], item),
                           Append(processed, ProcessedItem(db[i], item)))

\* The GST rate of line 160, in percent.
GstPercent == 18

\* 2^k modulo m.
RECURSIVE Pow2Mod(_, _)
Pow2Mod(k, m) == IF k = 0 THEN 1 % m ELSE (2 * Pow2Mod(k - 1, m)) % m

\* For a subtotal of n quarter units, n > 0: the E with
\* 2^(E-5) <= 0.045 * n < 2^(E-4), from E on.  The double nearest
\* 0.045 * n then has its last place at 2^(E-57).
RECURSIVE ProductExponent(_, _)
ProductExponent(n, E) ==
    IF 400 * (2 ^ E) <= 288 * n THEN ProductExponent(n, E + 1) ELSE E

\* Line 160 on a subtotal of n quarter units with n odd, where 18% of the
\* subtotal is q + 1/2 hundredths, half way between two hundredths: whether
\* round gives q + 1.  The arithmetic is that of Python's floats (IEEE
\* doubles).  The subtotal n/4 is a double.  0.18 is not: the literal is the
\* double 6485183463413514 / 2^55, below 0.18 by 0.24 / 2^55.  In units of
\* the product's last place the exact 18% is T = 9n * 2^(57-E) / 200, whose
\* fraction is r / 200, and the product of the two doubles is T less
\* n * 48 / (200 * 2^E), between 1/6 and 1/3 of a unit.  The multiplication
\* returns the double nearest to that (of two equally near, the one with even
\* last digit), and round(x, 2) the hundredth nearest to the double (the
\* even one, when the double is itself the half-way value).
TieRoundsUp(n, q) ==
    LET E == ProductExponent(n, 0)
        r == (9 * n * Pow2Mod(57 - E, 200)) % 200
        floor_is_odd == ((9 * n * Pow2Mod(57 - E, 400)) % 400) \div 200 = 1
    IN IF r = 0 THEN q % 2 = 1
       ELSE IF (r - 100) * (2 ^ E) = 48 * n THEN floor_is_odd
       ELSE (r - 100) * (2 ^ E) > 48 * n

\* Line 160: round(subtotal * 0.18, 2), in hundredths, for a subtotal >= 0
\* that is a multiple of 0.25 (every price the requests carry is one, so
\* that every line total and subtotal is a double, added without error).
\* Away from the half-way values the float error is far too small to matter.
GstOfMagnitude(subtotal) ==
    LET q == (subtotal * GstPercent) \div 100
        rem == (subtotal * GstPercent) % 100
    IN IF 2 * rem < 100 THEN q
       ELSE IF 2 * rem > 100 THEN q + 1
       ELSE IF TieRoundsUp(subtotal \div 25, q) THEN q + 1 ELSE q

\* Line 160.  A negative subtotal (items with negative quantities) gives the
\* negative of what its magnitude gives: float multiplication and round are
\* both symmetric in the sign.
GstAmount(subtotal) ==
    IF subtotal < 0 THEN 0 - GstOfMagnitude(0 - subtotal)
    ELSE GstOfMagnitude(subtotal)

\* Lines 161 and 164-172.  subtotal + gst_amount is within a rounding error
\* of a whole number of hundredths, which the round of line 161 returns.
BillRecord(counter, customer_id, processed, subtotal) ==
    [bill_id |-> counter, customer_id |-> customer_id, items |-> processed,
     subtotal |-> subtotal, gst_amount |-> GstAmount(subtotal),
     total |-> subtotal + GstAmount(subtotal)]

\* The counter left as it is.
NextCounterUnchanged(counter) == counter

\* Line 120: bill_counter += 1, the first statement of create_bill.
NextCounter(counter) == counter + 1

\* What create_bill does to a catalog db, a ledger bills and a counter value
\* old_counter, and what it answers.
create_bill_outcome(db, bills, old_counter, items, customer_id) ==
    LET counter == NextCounter(old_counter)
        r == ProcessItems(db, items, 1, 0, <<>>)
        bill_record == BillRecord(counter, customer_id, r.processed, r.subtotal)
    IN
    IF r.status_code = 200
    THEN [products_db |-> r.db, bill_counter |-> counter,
          bills_db |-> Append(bills, bill_record),
          response |-> Response("create_bill", 200, "", bill_record)]
    ELSE [products_db |-> r.db, bill_counter |-> counter,
          bills_db |-> bills,
          response |-> Response("create_bill", r.status_code, r.detail, r.info)]

\* POST /bill
create_bill(items, customer_id) ==
    LET outcome == create_bill_outcome(products_db, bills_db, bill_counter,
                                       items, customer_id)
    IN
    /\ products_db' = outcome.products_db
    /\ bill_counter' = outcome.bill_counter
    /\ bills_db' = outcome.bills_db
    /\ last' = outcome.response
    /\ UNCHANGED customers_db

(*************************** interleaved handlers **************************)

\* add_product and create_bill as a worker thread t runs them, one action
\* per read or write of products_db, bills_db, bill_counter or a Product's
\* quantity; what a handler does between two of them touches only its own
\* locals and is part of the action before.  A scan for an identifier is one
\* action: the only concurrent write to what it reads is an append, which the
\* scan either still reaches or does not.  A Product object stays at its
\* index, no handler here removing or replacing one.

InCreateBill(t) == threads[t].pc \notin {"idle", "line74"}

\* The thread raises or returns: the response goes out and the thread is
\* free for the next request.
Finish(t, response) ==
    /\ threads' = [threads EXCEPT ![t] = Idle]
    /\ last' = response

Goto(t, locals) ==
    /\ threads' = [threads EXCEPT ![t] = locals]
    /\ last' = last

\* add_product without the scan of lines 70-72.
add_product_scan_skipped(t, product) ==
    /\ threads[t].pc = "idle"
    /\ Goto(t, [Idle EXCEPT !.pc = "line74", !.product = product,
                            !.seen = Len(products_db)])
    /\ UNCHANGED <<products_db, customers_db, bills_db, bill_counter,
                   added, overlapped>>

\* Lines 70-72: the request arrives and the catalog is scanned for its id.
add_product_scan(t, product) ==
    /\ threads[t].pc = "idle"
    /\ IF FindById(products_db, product.id) # 0
       THEN Finish(t, Response("add_product", 400,
                               "Product ID already exists", <<>>))
       ELSE Goto(t, [Idle EXCEPT !.pc = "line74", !.product = product,
                                 !.seen = Len(products_db)])
    /\ UNCHANGED <<products_db, customers_db, bills_db, bill_counter,
                   added, overlapped>>

\* Lines 74-75.
add_product_append(t) ==
    /\ threads[t].pc = "line74"
    /\ products_db' = Append(products_db, threads[t].product)
    /\ Finish(t, Response("add_product", 200, "", threads[t].product))
    /\ UNCHANGED <<customers_db, bills_db, bill_counter, added, overlapped>>

\* Line 120, bill_counter += 1: the request arrives and the global is loaded.
create_bill_load_counter(t, items, customer_id) ==
    /\ threads[t].pc = "idle"
    /\ Goto(t, [Idle EXCEPT !.pc = "line120", !.items = items,
                            !.customer_id = customer_id,
                            !.read = bill_counter])
    /\ overlapped' = (overlapped \/ \E u \in Threads \ {t} : InCreateBill(u))
    /\ UNCHANGED <<products_db, customers_db, bills_db, bill_counter, added>>

\* Line 120: the sum is stored; lines 122-123.
create_bill_store_counter(t) ==
    /\ threads[t].pc = "line120"
    /\ bill_counter' = NextCounter(threads[t].read)
    /\ Goto(t, [threads[t] EXCEPT !.pc = "line126", !.k = 1, !.read = 0])
    /\ UNCHANGED <<products_db, customers_db, bills_db, added, overlapped>>

\* Lines 126-135: the next item, if any, and the scan for its product.
create_bill_find(t) ==
    LET self == threads[t]
        i == FindById(products_db, self.items[self.k].product_id)
    IN
    /\ self.pc = "line126"
    /\ IF self.k > Len(self.items)
       THEN Goto(t, [self EXCEPT !.pc = "line165"])
       ELSE IF i = 0
       THEN Finish(t, Response("create_bill", 404, "Product ID not found",
                       [product_id |-> self.items[self.k].product_id]))
       ELSE Goto(t, [self EXCEPT !.pc = "line137", !.i = i])
    /\ UNCHANGED <<products_db, customers_db, bills_db, bill_counter,
                   added, overlapped>>

\* Line 137 passing every request.
create_bill_check_skipped(t) ==
    LET self == threads[t] IN
    /\ self.pc = "line137"
    /\ Goto(t, [self EXCEPT !.pc = "line148", !.seen = products_db[self.i].quantity])
    /\ UNCHANGED <<products_db, customers_db, bills_db, bill_counter,
                   added, overlapped>>

\* Lines 137-144: the stock check, on the product's quantity as it is now.
create_bill_check(t) ==
    LET self == threads[t]
        product == products_db[self.i]
        item == self.items[self.k]
    IN
    /\ self.pc = "line137"
    /\ IF InsufficientStock(product, item)
       THEN Finish(t, Response("create_bill", 400, "Insufficient stock",
                       [product_name |-> product.name,
                        available |-> product.quantity,
                        requested |-> item.quantity]))
       ELSE Goto(t, [self EXCEPT !.pc = "line148", !.seen = product.quantity])
    /\ UNCHANGED <<products_db, customers_db, bills_db, bill_counter,
                   added, overlapped>>

\* Line 148, product.quantity -= item.quantity: the attribute is loaded.
create_bill_load_stock(t) ==
    LET self == threads[t] IN
    /\ self.pc = "line148"
    /\ Goto(t, [self EXCEPT !.pc = "line148_store",
                            !.read = products_db[self.i].quantity])
    /\ UNCHANGED <<products_db, customers_db, bills_db, bill_counter,
                   added, overlapped>>

\* Line 148: the difference is stored; lines 145 and 151-157.
create_bill_store_stock(t) ==
    LET self == threads[t]
        product == products_db[self.i]
        item == self.items[self.k]
    IN
    /\ self.pc = "line148_store"
    /\ products_db' = [products_db EXCEPT
                          ![self.i].quantity = self.read - item.quantity]
    /\ Goto(t, [self EXCEPT !.pc = "line126", !.k = self.k + 1, !.i = 0,
                            !.read = 0, !.seen = 0,
                            !.subtotal = self.subtotal + ItemTotal(product, item),
                            !.processed = Append(self.processed,
                                                 ProcessedItem(product, item))])
    /\ UNCHANGED <<customers_db, bills_db, bill_counter, added, overlapped>>

\* Lines 160-172: the record is built, with bill_counter as it is now.
create_bill_build_record(t) ==
    LET self == threads[t] IN
    /\ self.pc = "line165"
    /\ Goto(t, [Idle EXCEPT !.pc = "line174",
                            !.bill_record = BillRecord(bill_counter,
                                self.customer_id, self.processed, self.subtotal)])
    /\ UNCHANGED <<products_db, customers_db, bills_db, bill_counter,
                   added, overlapped>>

\* Lines 174-180.
create_bill_append_record(t) ==
    /\ threads[t].pc = "line174"
    /\ bills_db' = Append(bills_db, threads[t].bill_record)
    /\ Finish(t, Response("create_bill", 200, "", threads[t].bill_record))
    /\ UNCHANGED <<products_db, customers_db, bill_counter, added, overlapped>>

(********************************* reports *********************************)

\* Line 203: quantity < 10 is low stock.
LowStockThreshold == 10

\* The report with <= for the < of line 203.
inventory_status_at_most(db) ==
    LET IsLow(p) == p.quantity <= LowStockThreshold
        IsOut(p) == p.quantity = 0
        low_stock_products == SelectSeq(db, IsLow)
        out_of_stock == SelectSeq(db, IsOut)
    IN [total_products |-> Len(db),
        low_stock_items |-> Len(low_stock_products),
        out_of_stock_items |-> Len(out_of_stock),
        low_stock_products |-> low_stock_products,
        out_of_stock_products |-> out_of_stock]

\* What GET /reports/inventory-status answers on catalog db.
inventory_status(db) ==
    LET IsLow(p) == p.quantity < LowStockThreshold
        IsOut(p) == p.quantity = 0
        low_stock_products == SelectSeq(db, IsLow)
        out_of_stock == SelectSeq(db, IsOut)
    IN [total_products |-> Len(db),
        low_stock_items |-> Len(low_stock_products),
        out_of_stock_items |-> Len(out_of_stock),
        low_stock_products |-> low_stock_products,
        out_of_stock_products |-> out_of_stock]

\* GET /reports/inventory-status
get_inventory_status ==
    /\ last' = Response("get_inventory_status", 200, "",
                        inventory_status(products_db))
    /\ UNCHANGED <<products_db, customers_db, bills_db, bill_counter>>

(****************************** specifications *****************************)

\* One request at a time, each handler running to its end.  Product bodies
\* are drawn from bodies, BillItem lists from lists, customer references from
\* refs.  bill_counter is unbounded in the program; requests to create_bill
\* are made while it is below MaxBills.
CatalogWrites(bodies) ==
    \/ \E product \in bodies : add_product(product) /\ UNCHANGED <<added, threads, overlapped>>
    \/ \E id \in ProductIds, body \in bodies :
          update_product(id, body) /\ UNCHANGED <<added, threads, overlapped>>
    \/ \E id \in ProductIds : delete_product(id) /\ UNCHANGED <<added, threads, overlapped>>

Billing(lists, refs) ==
    \E items \in lists, c \in refs :
        /\ bill_counter < MaxBills
        /\ create_bill(items, c)
        /\ UNCHANGED <<added, threads, overlapped>>

Reads ==
    \/ get_all_products /\ UNCHANGED <<added, threads, overlapped>>
    \/ \E id \in ProductIds : get_product(id) /\ UNCHANGED <<added, threads, overlapped>>
    \/ get_all_customers /\ UNCHANGED <<added, threads, overlapped>>
    \/ get_inventory_status /\ UNCHANGED <<added, threads, overlapped>>

Customers ==
    \E customer \in CustomerBodies : add_customer(customer) /\ UNCHANGED <<added, threads, overlapped>>

\* Every handler; products that differ in name and price, sold two at a time.
Next ==
    \/ CatalogWrites(ProductBodies(Payloads, {2}))
    \/ Billing(ItemLists({2}), {<<>>})
    \/ Reads
    \/ Customers

Spec == Init /\ [][Next]_vars

\* The handlers that write the catalog; products of one name and price, sold
\* one at a time.
StockPayloads == {[name |-> "pen", price |-> 100]}

NextStock ==
    \/ CatalogWrites(ProductBodies(StockPayloads, {0, 2}))
    \/ Billing(ItemLists({1}), CustomerRefs \ {<<>>})

SpecStock == Init /\ [][NextStock]_vars

\* add_product and create_bill alone; products sold one or two at a time.
NextBill ==
    \/ \E product \in ProductBodies(StockPayloads, {0, 2}) :
          add_product(product) /\ UNCHANGED <<added, threads, overlapped>>
    \/ Billing(ItemLists({1, 2}), CustomerRefs)

SpecBill == Init /\ [][NextBill]_vars

\* Only add_product requests with pairwise distinct identifiers, and reads.
NextAdds ==
    \/ \E product \in ProductBodies(Payloads, {0, 1, 2}) :
          /\ \A k \in 1..Len(added) : added[k].id # product.id
          /\ add_product(product)
          /\ added' = Append(added, product)
          /\ UNCHANGED <<threads, overlapped>>
    \/ \E id \in ProductIds : get_product(id) /\ UNCHANGED <<added, threads, overlapped>>
    \/ get_all_products /\ UNCHANGED <<added, threads, overlapped>>

SpecAdds == Init /\ [][NextAdds]_vars

\* The catalog handlers and the inventory report, on three products with
\* quantities at and around the report's thresholds.
InventoryBodies ==
    {[id |-> i, name |-> "pen", price |-> 100, quantity |-> q] :
        i \in 1..3, q \in {0, 9, 10}}

NextInventory ==
    \/ \E product \in InventoryBodies : add_product(product) /\ UNCHANGED <<added, threads, overlapped>>
    \/ \E id \in 1..3 : delete_product(id) /\ UNCHANGED <<added, threads, overlapped>>
    \/ get_inventory_status /\ UNCHANGED <<added, threads, overlapped>>

SpecInventory == Init /\ [][NextInventory]_vars

\* add_product and create_bill on products priced 0.25 and 1.00, sold one or
\* two at a time: the subtotals include whole units (1.00, 2.00) and values
\* whose 18% lies half way between two hundredths (0.25, 0.75, 1.25, 2.25).
TaxPayloads == {[name |-> "gum", price |-> 25], [name |-> "pen", price |-> 100]}

NextTax ==
    \/ \E product \in ProductBodies(TaxPayloads, {2}) :
          add_product(product) /\ UNCHANGED <<added, threads, overlapped>>
    \/ Billing(ItemLists({1, 2}), {<<>>})

SpecTax == Init /\ [][NextTax]_vars

\* Two worker threads serving add_product and create_bill requests, their
\* steps interleaved in every way.  Every add_product request is for product
\* 1 with one unit in stock; a create_bill request has no item or one, for
\* one unit of product 1 or of product 2, which is never in the catalog.
ConcurrentBodies == {[id |-> 1, name |-> "pen", price |-> 100, quantity |-> 1]}

ConcurrentItemLists == {<<>>} \cup {<<item>> : item \in BillItems({1})}

NextConcurrent ==
    \E t \in Threads :
        \/ \E product \in ConcurrentBodies :
              add_product_scan(t, product)
        \/ add_product_append(t)
        \/ \E items \in ConcurrentItemLists :
              /\ bill_counter < MaxBills
              /\ create_bill_load_counter(t, items, <<>>)
        \/ create_bill_store_counter(t)
        \/ create_bill_find(t)
        \/ create_bill_check(t)
        \/ create_bill_load_stock(t)
        \/ create_bill_store_stock(t)
        \/ create_bill_build_record(t)
        \/ create_bill_append_record(t)

SpecConcurrent == Init /\ [][NextConcurrent]_vars

\* add_product and create_bill alone, one request at a time, with the bodies
\* of the successful add_product requests kept in added.
NextAccount ==
    \/ \E product \in ProductBodies(StockPayloads, {2}) :
          /\ add_product(product)
          /\ added' = IF last'.status_code = 200
                      THEN Append(added, product) ELSE added
          /\ UNCHANGED <<threads, overlapped>>
    \/ Billing(ItemLists({1}), {<<>>})

SpecAccount == Init /\ [][NextAccount]_vars

\* add_product and create_bill alone, with BillItem quantities of either sign
\* and zero: BillItem.quantity is declared int (line 31) and create_bill
\* validates nothing about it.
NextAnyQuantity ==
    \/ \E product \in ProductBodies(StockPayloads, {2}) :
          add_product(product) /\ UNCHANGED <<added, threads, overlapped>>
    \/ Billing(ItemLists({-1, 0, 1}), {<<>>})

SpecAnyQuantity == Init /\ [][NextAnyQuantity]_vars

(***************************************************************************)
(* Properties.  A property of one request is stated either about every     *)
(* step that is that request's handler (the unprimed variables are the     *)
(* state before the call, the primed ones the state after it, last' the    *)
(* response), or about the outcome the handler has for every request in    *)
(* every reachable state.                                                  *)
(***************************************************************************)

\* Every request the specifications above can make.
AllBodies == ProductBodies(Payloads, {0, 1, 2})
AllItemLists == ItemLists({1, 2})

IsPrefix(s, t) == Len(s) <= Len(t) /\ SubSeq(t, 1, Len(s)) = s

InCatalog(db, id) == \E i \in 1..Len(db) : db[i].id = id

\* The catalog record with this id (one record, by C7).
RecordOf(db, id) == db[CHOOSE i \in 1..Len(db) : db[i].id = id]

\* The total quantity of product id requested by the items before item k.
RECURSIVE QuantityBefore(_, _, _)
QuantityBefore(items, k, id) ==
    IF k <= 1 THEN 0
    ELSE QuantityBefore(items, k - 1, id)
         + (IF items[k - 1].product_id = id THEN items[k - 1].quantity ELSE 0)

\* The stock of product id when item k is reached, every earlier item having
\* been taken from stock.
StockAt(db, items, k, id) ==
    RecordOf(db, id).quantity - QuantityBefore(items, k, id)

\* The catalog after exactly the first n items have been taken from stock.
AfterFirst(db, items, n) ==
    [i \in 1..Len(db) |->
        [db[i] EXCEPT !.quantity = @ - QuantityBefore(items, n + 1, db[i].id)]]

Unknown(db, items, k) == ~InCatalog(db, items[k].product_id)

Exceeds(db, items, k) ==
    /\ InCatalog(db, items[k].product_id)
    /\ items[k].quantity > StockAt(db, items, k, items[k].product_id)

\* The first index of items at which P holds, 0 when there is none.
FirstIndex(items, P(_)) ==
    IF \E k \in 1..Len(items) : P(k)
    THEN CHOOSE k \in 1..Len(items) : P(k) /\ \A j \in 1..(k - 1) : ~P(j)
    ELSE 0

FirstUnknown(db, items) == LET P(k) == Unknown(db, items, k) IN FirstIndex(items, P)

FirstExceeding(db, items) == LET P(k) == Exceeds(db, items, k) IN FirstIndex(items, P)

RECURSIVE SumOfTotals(_)
SumOfTotals(lines) ==
    IF lines = <<>> THEN 0 ELSE Head(lines).item_total + SumOfTotals(Tail(lines))

\* C1: the bill_id values of the ledger's records, in append order, are
\* exactly 1, 2, ..., n.
C1_BillIdsAreOneToN ==
    \A i \in 1..Len(bills_db) : bills_db[i].bill_id = i

\* C2: a create_bill call that fails leaves bill_counter and the ledger
\* unchanged; a successful one advances the counter by one and appends one
\* record.
C2_CounterAdvancesOnlyOnSuccess ==
    [][last'.op = "create_bill" =>
        \A items \in AllItemLists, c \in CustomerRefs :
            create_bill(items, c) =>
                IF last'.status_code = 200
                THEN /\ bill_counter' = bill_counter + 1
                     /\ Len(bills_db') = Len(bills_db) + 1
                     /\ IsPrefix(bills_db, bills_db')
                ELSE /\ bill_counter' = bill_counter
                     /\ bills_db' = bills_db]_vars

DistinctProducts(items) ==
    \A j, k \in 1..Len(items) : j # k => items[j].product_id # items[k].product_id

\* C3: a create_bill whose items name pairwise distinct products, each in
\* the catalog with stock >= the requested quantity, succeeds; it lowers each
\* named product's stock by exactly the requested quantity and changes
\* nothing else in the catalog; each returned line carries the product's unit
\* price and a line total of unit price times quantity, and the subtotal is
\* the sum of the line totals.
C3_SuccessfulBill ==
    \A items \in AllItemLists, c \in CustomerRefs :
        ( /\ DistinctProducts(items)
          /\ \A k \in 1..Len(items) :
                /\ InCatalog(products_db, items[k].product_id)
                /\ RecordOf(products_db, items[k].product_id).quantity
                      >= items[k].quantity )
        => LET outcome == create_bill_outcome(products_db, bills_db,
                                              bill_counter, items, c)
               bill == outcome.response.body
           IN /\ outcome.response.status_code = 200
              /\ outcome.products_db = AfterFirst(products_db, items, Len(items))
              /\ Len(bill.items) = Len(items)
              /\ \A k \in 1..Len(items) :
                    LET line == bill.items[k]
                        product == RecordOf(products_db, items[k].product_id)
                    IN /\ line.product_id = items[k].product_id
                       /\ line.quantity = items[k].quantity
                       /\ line.unit_price = product.price
                       /\ line.item_total = product.price * items[k].quantity
              /\ bill.subtotal = SumOfTotals(bill.items)

\* C3's case: a bill for two different products has just been created.
C3_Witness ==
    /\ last.op = "create_bill"
    /\ last.status_code = 200
    /\ Len(last.body.items) = 2
    /\ last.body.items[1].product_id # last.body.items[2].product_id
    /\ last.body.items[1].quantity # last.body.items[2].quantity

\* C4 as first stated: a create_bill request containing an unknown product id
\* fails with NotFound at the first such item, having taken from stock exactly
\* the items before it.
C4_UnknownProductFails ==
    \A items \in AllItemLists, c \in CustomerRefs :
        LET k0 == FirstUnknown(products_db, items) IN
        (k0 # 0)
        => LET outcome == create_bill_outcome(products_db, bills_db,
                                              bill_counter, items, c)
           IN /\ outcome.response.status_code = 404
              /\ outcome.response.detail = "Product ID not found"
              /\ outcome.response.body.product_id = items[k0].product_id
              /\ outcome.products_db = AfterFirst(products_db, items, k0 - 1)
              /\ outcome.bills_db = bills_db

\* C4, amended: a create_bill request whose first unknown product id is at
\* item k0, and in which no item before k0 requests more than its product's
\* stock at that moment, fails with NotFound for that id; exactly the items
\* before k0 have been taken from stock (so no later item is processed, and
\* a product not named before k0 keeps its stock), and no bill is recorded.
C4_UnknownProductFailsUnlessStockFailsFirst ==
    \A items \in AllItemLists, c \in CustomerRefs :
        LET k0 == FirstUnknown(products_db, items) IN
        (k0 # 0 /\ \A j \in 1..(k0 - 1) : ~Exceeds(products_db, items, j))
        => LET outcome == create_bill_outcome(products_db, bills_db,
                                              bill_counter, items, c)
           IN /\ outcome.response.status_code = 404
              /\ outcome.response.detail = "Product ID not found"
              /\ outcome.response.body.product_id = items[k0].product_id
              /\ outcome.products_db = AfterFirst(products_db, items, k0 - 1)
              /\ outcome.bills_db = bills_db

\* C4's case: the first create_bill request ever made failed with NotFound
\* after an earlier item of it had been taken from stock (under SpecBill
\* every product's quantity is set to 0 or 2).
C4_Witness ==
    /\ last.op = "create_bill"
    /\ last.status_code = 404
    /\ bills_db = <<>>
    /\ bill_counter = 1
    /\ \E i \in 1..Len(products_db) : products_db[i].quantity = 1
    /\ \A i \in 1..Len(products_db) : products_db[i].id # last.body.product_id

\* C5 as first stated: create_bill fails with InsufficientStock at the first
\* item whose quantity exceeds its product's stock at that moment, reporting
\* that stock and that quantity, having taken from stock exactly the items
\* before it.
C5_InsufficientStockFails ==
    \A items \in AllItemLists, c \in CustomerRefs :
        LET k0 == FirstExceeding(products_db, items) IN
        (k0 # 0)
        => LET outcome == create_bill_outcome(products_db, bills_db,
                                              bill_counter, items, c)
           IN /\ outcome.response.status_code = 400
              /\ outcome.response.detail = "Insufficient stock"
              /\ outcome.response.body.product_name =
                    RecordOf(products_db, items[k0].product_id).name
              /\ outcome.response.body.available =
                    StockAt(products_db, items, k0, items[k0].product_id)
              /\ outcome.response.body.requested = items[k0].quantity
              /\ outcome.products_db = AfterFirst(products_db, items, k0 - 1)
              /\ outcome.bills_db = bills_db

\* C5, amended: when item k0 is the first whose quantity exceeds its product's
\* stock at that moment (after the decrements made by the earlier items of the
\* request) and every item before k0 names a product of the catalog,
\* create_bill fails with InsufficientStock; Available is that current stock,
\* Requested the item's quantity; exactly the items before k0 have been taken
\* from stock, so the failing item changes no stock.
C5_InsufficientStockFailsUnlessUnknownFirst ==
    \A items \in AllItemLists, c \in CustomerRefs :
        LET k0 == FirstExceeding(products_db, items) IN
        (k0 # 0 /\ \A j \in 1..(k0 - 1) : ~Unknown(products_db, items, j))
        => LET outcome == create_bill_outcome(products_db, bills_db,
                                              bill_counter, items, c)
           IN /\ outcome.response.status_code = 400
              /\ outcome.response.detail = "Insufficient stock"
              /\ outcome.response.body.product_name =
                    RecordOf(products_db, items[k0].product_id).name
              /\ outcome.response.body.available =
                    StockAt(products_db, items, k0, items[k0].product_id)
              /\ outcome.response.body.requested = items[k0].quantity
              /\ outcome.products_db = AfterFirst(products_db, items, k0 - 1)
              /\ outcome.bills_db = bills_db

\* C5's case: the first create_bill request ever made failed on stock that
\* an earlier item of it had lowered: 1 is available and 2 were requested,
\* and under SpecBill every product's quantity is set to 0 or 2.
C5_Witness ==
    /\ last.op = "create_bill"
    /\ last.status_code = 400
    /\ last.body.available = 1
    /\ last.body.requested = 2
    /\ bills_db = <<>>
    /\ bill_counter = 1

\* C6: with every Product quantity supplied >= 0 and every BillItem quantity
\* > 0 (the requests of SpecStock), every product of the catalog has
\* quantity >= 0 after any sequence of add_product, update_product,
\* delete_product and create_bill calls.
C6_QuantityNeverNegative ==
    \A i \in 1..Len(products_db) : products_db[i].quantity >= 0

\* C6's case: one request named the same product in two items, and took its
\* last unit.
C6_Witness ==
    /\ last.op = "create_bill"
    /\ last.status_code = 200
    /\ Len(last.body.items) = 2
    /\ last.body.items[1].product_id = last.body.items[2].product_id
    /\ \E i \in 1..Len(products_db) :
          /\ products_db[i].id = last.body.items[1].product_id
          /\ products_db[i].quantity = 0

\* C7: no two records of the catalog have the same identifier.
C7_IdentifiersUnique ==
    \A i, j \in 1..Len(products_db) :
        i # j => products_db[i].id # products_db[j].id

\* C7's case: a product was updated while the catalog held two products (the
\* body of the update may carry the other product's id).
C7_Witness ==
    /\ last.op = "update_product"
    /\ last.status_code = 200
    /\ Len(products_db) = 2

\* C8: add_product with an identifier that is already in the catalog fails
\* with 400 "Product ID already exists" and leaves the catalog, its records,
\* their fields and their order, unchanged.
C8_DuplicateAddRejected ==
    [][last'.op = "add_product" =>
        \A product \in AllBodies :
            (add_product(product) /\ InCatalog(products_db, product.id))
            => /\ last'.status_code = 400
               /\ last'.detail = "Product ID already exists"
               /\ products_db' = products_db]_vars

\* C8's case: an add_product was rejected while the catalog held two products.
C8_Witness ==
    /\ last.op = "add_product"
    /\ last.status_code = 400
    /\ Len(products_db) = 2

\* C9: every step leaves the ledger as it was or appends to it (the previous
\* ledger is a prefix of the new one), and a record appended captures, for
\* each line, the product's name and unit price at the time of the sale and
\* a line total of that price times the quantity; these stay as they are
\* when the product is later updated or deleted.
C9_LedgerAppendOnly ==
    [][/\ IsPrefix(bills_db, bills_db')
       /\ Len(bills_db') <= Len(bills_db) + 1
       /\ Len(bills_db') = Len(bills_db) + 1 =>
             LET bill == bills_db'[Len(bills_db')] IN
             \A k \in 1..Len(bill.items) :
                 LET line == bill.items[k] IN
                 /\ InCatalog(products_db, line.product_id)
                 /\ line.product_name = RecordOf(products_db, line.product_id).name
                 /\ line.unit_price = RecordOf(products_db, line.product_id).price
                 /\ line.item_total = line.unit_price * line.quantity]_vars

\* C9's case: the ledger holds a line for a product that has since been
\* renamed and repriced, and a line for a product that has since been deleted.
C9_Witness ==
    /\ \E b \in 1..Len(bills_db) : \E k \in 1..Len(bills_db[b].items) :
          LET line == bills_db[b].items[k] IN
          \E i \in 1..Len(products_db) :
              /\ products_db[i].id = line.product_id
              /\ products_db[i].name # line.product_name
              /\ products_db[i].price # line.unit_price
    /\ \E b \in 1..Len(bills_db) : \E k \in 1..Len(bills_db[b].items) :
          ~InCatalog(products_db, bills_db[b].items[k].product_id)

\* C10: after add_product requests with pairwise distinct identifiers on the
\* empty catalog (added lists their bodies), the catalog holds exactly the
\* added records and no others, and get_product answers each added
\* identifier with the added record.
C10_CatalogIsWhatWasAdded ==
    /\ Len(products_db) = Len(added)
    /\ \A k \in 1..Len(added) : \E i \in 1..Len(products_db) : products_db[i] = added[k]
    /\ \A i \in 1..Len(products_db) : \E k \in 1..Len(added) : added[k] = products_db[i]
    /\ \A k \in 1..Len(added) :
          get_product_response(products_db, added[k].id)
             = Response("get_product", 200, "", added[k])
    /\ last.op = "get_product" =>
          IF last.status_code = 200
          THEN \E k \in 1..Len(added) : added[k] = last.body
          ELSE last.status_code = 404

\* C10's case: two products were added and get_product returned the second.
C10_Witness ==
    /\ Len(added) = 2
    /\ last.op = "get_product"
    /\ last.status_code = 200
    /\ last.body = added[2]

\* C11: update_product on an identifier of the catalog answers 200, stores
\* the supplied name, price and quantity under the path identifier (whatever
\* identifier the body carries), leaves every other record and the number
\* of records as they were; on an identifier that is not in the catalog it
\* answers 404 "Product not found" and leaves the catalog unchanged.
C11_UpdateReplacesRecord ==
    [][last'.op = "update_product" =>
        \A id \in ProductIds, body \in AllBodies :
            update_product(id, body) =>
                LET stored == [id |-> id, name |-> body.name,
                               price |-> body.price, quantity |-> body.quantity]
                IN
                IF InCatalog(products_db, id)
                THEN /\ last'.status_code = 200
                     /\ last'.body = stored
                     /\ Len(products_db') = Len(products_db)
                     /\ \A i \in 1..Len(products_db) :
                           products_db'[i] = IF products_db[i].id = id
                                             THEN stored
                                             ELSE products_db[i]
                ELSE /\ last'.status_code = 404
                     /\ last'.detail = "Product not found"
                     /\ products_db' = products_db]_vars

\* C11's case: the second of two products has just been updated, and now
\* differs in quantity from the first, which is as it was added.
C11_Witness ==
    /\ last.op = "update_product"
    /\ last.status_code = 200
    /\ Len(products_db) = 2
    /\ products_db[2] = last.body
    /\ products_db[1].quantity # products_db[2].quantity

\* C12: delete_product on an identifier of the catalog answers 200 and
\* removes that record and no other, keeping the order of the rest, after
\* which get_product for it answers 404; on an identifier that is not in the
\* catalog it answers 404 and leaves the catalog unchanged.  When the step
\* before was a successful add_product, deleting the identifier just added
\* restores the catalog as it was before the add.
C12_DeleteRemovesRecord ==
    [][last'.op = "delete_product" =>
        \A id \in ProductIds :
            delete_product(id) =>
                LET Others(product) == product.id # id IN
                /\ IF InCatalog(products_db, id)
                   THEN /\ last'.status_code = 200
                        /\ products_db' = SelectSeq(products_db, Others)
                        /\ Len(products_db') = Len(products_db) - 1
                        /\ get_product_response(products_db', id).status_code
                              = 404
                   ELSE /\ last'.status_code = 404
                        /\ last'.detail = "Product not found"
                        /\ products_db' = products_db
                /\ ( /\ last.op = "add_product"
                     /\ last.status_code = 200
                     /\ last.body.id = id )
                   => /\ Append(products_db', last.body) = products_db
                      /\ ~InCatalog(products_db', id)]_vars

\* C12's case: one of two products has just been deleted; the other is
\* still there.
C12_Witness ==
    /\ last.op = "delete_product"
    /\ last.status_code = 200
    /\ Len(products_db) = 1

IsIn(list, x) == \E k \in 1..Len(list) : list[k] = x

\* C13: the inventory status report lists in low_stock_products exactly the
\* catalog's products with quantity < 10 and in out_of_stock_products exactly
\* those with quantity 0, each once; low_stock_items and out_of_stock_items
\* are the lengths of the two lists and total_products the catalog's size;
\* the request changes neither catalog, customers, ledger nor counter.
C13_InventoryStatus ==
    [][last'.op = "get_inventory_status" =>
        LET report == last'.body
            Low == {i \in 1..Len(products_db) : products_db[i].quantity < 10}
            Out == {i \in 1..Len(products_db) : products_db[i].quantity = 0}
        IN
        /\ UNCHANGED <<products_db, customers_db, bills_db, bill_counter>>
        /\ \A i \in 1..Len(products_db) :
              /\ IsIn(report.low_stock_products, products_db[i]) <=> i \in Low
              /\ IsIn(report.out_of_stock_products, products_db[i]) <=> i \in Out
        /\ \A k \in 1..Len(report.low_stock_products) :
              IsIn(products_db, report.low_stock_products[k])
        /\ \A k \in 1..Len(report.out_of_stock_products) :
              IsIn(products_db, report.out_of_stock_products[k])
        /\ Len(report.low_stock_products) = Cardinality(Low)
        /\ Len(report.out_of_stock_products) = Cardinality(Out)
        /\ report.low_stock_items = Len(report.low_stock_products)
        /\ report.out_of_stock_items = Len(report.out_of_stock_products)
        /\ report.total_products = Len(products_db)]_vars

\* C13's case: a report on a catalog holding a product with quantity 0, one
\* with quantity 9 and one with quantity 10: the first is in both lists, the
\* second in the low-stock list only, the third in neither.
C13_Witness ==
    /\ last.op = "get_inventory_status"
    /\ {products_db[i].quantity : i \in 1..Len(products_db)} = {0, 9, 10}
    /\ Len(products_db) = 3
    /\ \A i \in 1..3 :
          /\ products_db[i].quantity = 0 =>
                /\ IsIn(last.body.low_stock_products, products_db[i])
                /\ IsIn(last.body.out_of_stock_products, products_db[i])
          /\ products_db[i].quantity = 9 =>
                /\ IsIn(last.body.low_stock_products, products_db[i])
                /\ ~IsIn(last.body.out_of_stock_products, products_db[i])
          /\ products_db[i].quantity = 10 =>
                /\ ~IsIn(last.body.low_stock_products, products_db[i])
                /\ ~IsIn(last.body.out_of_stock_products, products_db[i])
    /\ last.body.low_stock_items = 2
    /\ last.body.out_of_stock_items = 1

\* n / d rounded to the nearest integer, a half going up (n >= 0, d > 0).
HalfUp(n, d) == (2 * n + d) \div (2 * d)

\* C14: in every record of the ledger the tax is 18% of the subtotal rounded
\* half-up to 2 decimals, which for a subtotal of whole units is exactly 18%
\* of it, and the grand total is subtotal plus tax.
C14_TaxIsEighteenPercentHalfUp ==
    \A b \in 1..Len(bills_db) :
        LET bill == bills_db[b] IN
        /\ bill.gst_amount = HalfUp(18 * bill.subtotal, 100)
        /\ bill.subtotal % 100 = 0 => 100 * bill.gst_amount = 18 * bill.subtotal
        /\ bill.total = bill.subtotal + bill.gst_amount

\* C15: the store of line 148 is made by a call that passed the stock check
\* (the stock its check saw was at least the quantity asked), sets the stock
\* to the value the call loaded less that quantity without looking again,
\* and leaves the stock negative only when the value loaded is below what the
\* check saw: another call's decrement came between this call's check and
\* its own decrement.
C15_StockNegativeOnlyByRace ==
    [][\A t \in Threads :
        (threads[t].pc = "line148_store" /\ threads'[t].pc # "line148_store")
        => LET self == threads[t]
               requested == self.items[self.k].quantity
               stock == products_db'[self.i].quantity
           IN /\ self.seen >= requested
              /\ stock = self.read - requested
              /\ stock < 0 => self.read < self.seen]_vars

\* C15's case: product 1 was added once, with one unit in stock; two calls
\* each billed one unit of it, both having passed the stock check before
\* either decremented; two units are billed and the stock is -1.
C15_Witness ==
    /\ Len(products_db) = 1
    /\ products_db[1].quantity = -1
    /\ Len(bills_db) = 2
    /\ \A b \in 1..2 :
          /\ Len(bills_db[b].items) = 1
          /\ bills_db[b].items[1].product_id = products_db[1].id
          /\ bills_db[b].items[1].quantity = 1
    /\ \A t \in Threads : threads[t].pc = "idle"

\* C16: the append of line 74 is made by a call whose scan found no record
\* with the identifier among the records the catalog then had; the catalog
\* comes to hold two records with one identifier only when the other record
\* was appended between this call's scan and its append.
C16_DuplicateOnlyByRace ==
    [][\A t \in Threads :
        (threads[t].pc = "line74" /\ threads'[t].pc # "line74")
        => LET self == threads[t] IN
           /\ products_db' = Append(products_db, self.product)
           /\ self.seen <= Len(products_db)
           /\ \A j \in 1..self.seen : products_db[j].id # self.product.id]_vars

\* C16's case: two add_product calls for identifier 1 both passed the scan
\* before either appended; both succeeded and the catalog holds two records
\* with identifier 1.
C16_Witness ==
    /\ Len(products_db) = 2
    /\ products_db[1].id = products_db[2].id
    /\ last.op = "add_product"
    /\ last.status_code = 200
    /\ \A t \in Threads : threads[t].pc = "idle"

\* C17 as first stated: the bill_id values of the ledger's records are
\* pairwise distinct, also when create_bill calls are interleaved.
C17_BillIdsDistinct ==
    \A a, b \in 1..Len(bills_db) :
        a # b => bills_db[a].bill_id # bills_db[b].bill_id

\* C17, amended: as long as no create_bill call has started while another
\* was in progress, the bill_id values of the ledger's records are pairwise
\* distinct.
C17_BillIdsDistinctWithoutOverlap ==
    ~overlapped => C17_BillIdsDistinct

\* C17's case: two create_bill calls, one after the other (add_product calls
\* may have run beside them), have each recorded a bill.
C17_Witness ==
    /\ ~overlapped
    /\ Len(bills_db) = 2
    /\ bills_db[1].bill_id = 1
    /\ bills_db[2].bill_id = 2

\* The quantity product id was added with.
AddedQuantity(id) ==
    added[CHOOSE k \in 1..Len(added) : added[k].id = id].quantity

RECURSIVE SumOfQuantities(_, _)
SumOfQuantities(lines, id) ==
    IF lines = <<>> THEN 0
    ELSE (IF Head(lines).product_id = id THEN Head(lines).quantity ELSE 0)
         + SumOfQuantities(Tail(lines), id)

\* The units of product id in the line items of the ledger's records.
RECURSIVE Billed(_, _)
Billed(bills, id) ==
    IF bills = <<>> THEN 0
    ELSE SumOfQuantities(Head(bills).items, id) + Billed(Tail(bills), id)

\* C18: with add_product and create_bill requests only, one at a time, the
\* quantity each product was added with equals its stock plus the units of
\* it in the line items of the ledger's records, also after create_bill
\* calls that failed partway through their items.
C18_StockAccountedFor ==
    \A i \in 1..Len(products_db) :
        AddedQuantity(products_db[i].id)
            = products_db[i].quantity + Billed(bills_db, products_db[i].id)

\* C19: no create_bill call, whatever quantities its items carry (zero and
\* negative ones included), increases the stock of any product.
C19_BillNeverIncreasesStock ==
    [][last'.op = "create_bill" =>
        /\ Len(products_db') = Len(products_db)
        /\ \A i \in 1..Len(products_db) :
              products_db'[i].quantity <= products_db[i].quantity]_vars

====
